---- MODULE Spec2Model ----
(***************************************************************************)
(* Model of the context-persistence knowledge graph and hybrid search:     *)
(*   context_persistence/knowledge_graph.py  (KnowledgeGraph)              *)
(*   context_persistence/hybrid_search.py    (HybridSearch)                *)
(*   context_persistence/server.py           (the tools that call them)    *)
(*                                                                         *)
(* The knowledge graph is one shared in-memory MultiDiGraph.  build_graph  *)
(* is a coroutine: it runs up to each `await session.execute(...)`, is     *)
(* suspended there, and other coroutines of the event loop run meanwhile.  *)
(* Every stretch of code between two awaits is one action.                 *)
(***************************************************************************)
EXTENDS Integers, Sequences, FiniteSets, TLC

(***************************************************************************)
(* Bounds of the model.                                                    *)
(***************************************************************************)
MaxTime == 1
MaxBuilds == 2
MaxDepth == 2
MaxLimit == 2
MaxFuse == 6
MaxTextLen == 3
MaxNameLen == 2
MaxEntities == 3

Times == 0..MaxTime
Builds == 1..MaxBuilds

\* valid_until IS NULL (models_enhanced.py: nullable=True)
None == -1

EntityIds == {"e1", "e2", "e3", "e4"}
RelIds == {"r1", "r2", "r3", "r4", "r5", "r6", "r7"}

(***************************************************************************)
(* The store: rows of the entities and relationships tables.               *)
(***************************************************************************)
EntityType(e) == IF e = "e2" THEN "project" ELSE "person"
\* confidence in tenths
Confidence(e) ==
  CASE e = "e1" -> 9 [] e = "e2" -> 8 [] e = "e5" -> 6 [] e = "e6" -> 5 [] OTHER -> 7
\* r1 and r3 join the same ordered pair, r1 and r2 both point at e2, r2 and r4
\* form a cycle, r5 is a self-loop, r1 r4 and r6 r7 are two paths from e1 to e3;
\* r8 and r9 lengthen the chain e1, e2, e3, e4 (r1, r2, r7) by e5 and e6
Source(r) ==
  CASE r \in {"r1", "r3", "r5", "r6"} -> "e1" [] r = "r2" -> "e3" [] r = "r4" -> "e2"
    [] r = "r8" -> "e5" [] r = "r9" -> "e6" [] OTHER -> "e4"
Target(r) ==
  CASE r \in {"r1", "r2", "r3"} -> "e2" [] r \in {"r4", "r7"} -> "e3"
    [] r = "r5" -> "e1" [] r = "r9" -> "e5" [] OTHER -> "e4"
RelType(r) ==
  CASE r \in {"r1", "r6"} -> "works_on" [] r \in {"r2", "r4"} -> "knows" [] OTHER -> "uses"

\* [valid_from, valid_until) with valid_until > valid_from when it is set
Intervals == {iv \in Times \X (Times \cup {None}) : iv[2] = None \/ iv[2] > iv[1]}

Entity(e, iv) ==
  [id |-> e, name |-> e, entity_type |-> EntityType(e), confidence |-> Confidence(e),
   valid_from |-> iv[1], valid_until |-> iv[2]]

Relationship(r, iv) ==
  [id |-> r, source_entity_id |-> Source(r), target_entity_id |-> Target(r),
   relationship_type |-> RelType(r), valid_from |-> iv[1], valid_until |-> iv[2]]

Always == <<0, None>>
Absent == <<None, None>>

\* The stores the model draws from.  Every entity id has one row (id is the
\* primary key); e1, e2 and r1 take every validity interval, e3 is valid
\* throughout, e4 has no row, and r1, r2, r3 may each be absent.
Stores ==
  {[entities |-> {Entity("e1", v1), Entity("e2", v2), Entity("e3", Always)},
    relationships |->
      {Relationship(r, IF r = "r1" THEN w1 ELSE Always) :
         r \in {x \in present : x # "r1" \/ w1 # Absent}}] :
      v1 \in Intervals, v2 \in Intervals, w1 \in Intervals \cup {Absent},
      present \in {p \in SUBSET {"r1", "r2", "r3"} : "r1" \in p}}

Min(a, b) == IF a <= b THEN a ELSE b

\* the sequences of distinct elements of S a query with LIMIT n may return:
\* n rows, or all of them when there are fewer
Selections(S, n) ==
  LET len == Min(n, Cardinality(S))
  IN {seq \in [1..len -> S] : \A i, j \in 1..len : i # j => seq[i] # seq[j]}

\* seq[:n] for n >= 0
Prefix(seq, n) == SubSeq(seq, 1, Min(n, Len(seq)))

\* the WHERE clause of both queries of build_graph
ValidAt(row, as_of) ==
  /\ row.valid_from <= as_of
  /\ (row.valid_until = None \/ row.valid_until > as_of)

(***************************************************************************)
(* networkx.MultiDiGraph: node -> attributes, keyed edges.                 *)
(***************************************************************************)
NoAttrs == [has_attrs |-> FALSE, name |-> "", entity_type |-> "", confidence |-> 0]

EmptyGraph == [nodes |-> [n \in {} |-> NoAttrs], edges |-> {}]

NodesOf(g) == DOMAIN g.nodes

\* graph.add_node(entity.id, name=..., entity_type=..., ...) for every row
AddNodes(g, rows) ==
  [g EXCEPT !.nodes =
     [n \in NodesOf(g) \cup {row.id : row \in rows} |->
        IF \E row \in rows : row.id = n
        THEN LET row == CHOOSE x \in rows : x.id = n
             IN [has_attrs |-> TRUE, name |-> row.name,
                 entity_type |-> row.entity_type, confidence |-> row.confidence]
        ELSE g.nodes[n]]]

\* graph.add_edge(source, target, key=rel.id, ...) for every row: networkx
\* creates a missing endpoint as a node without attributes
AddEdges(g, rows) ==
  LET ends == {row.source_entity_id : row \in rows} \cup {row.target_entity_id : row \in rows}
      new == {[u |-> row.source_entity_id, v |-> row.target_entity_id, key |-> row.id,
               relationship_type |-> row.relationship_type] : row \in rows}
      kept == {e \in g.edges : ~ \E x \in new : x.u = e.u /\ x.v = e.v /\ x.key = e.key}
  IN [nodes |-> [n \in NodesOf(g) \cup ends |->
                   IF n \in NodesOf(g) THEN g.nodes[n] ELSE NoAttrs],
      edges |-> kept \cup new]

ValidEntities(s, as_of) == {row \in s.entities : ValidAt(row, as_of)}
ValidRelationships(s, as_of) == {row \in s.relationships : ValidAt(row, as_of)}

\* what one build_graph(as_of) produces when nothing else runs
BuildAlone(s, as_of) ==
  AddEdges(AddNodes(EmptyGraph, ValidEntities(s, as_of)), ValidRelationships(s, as_of))

VARIABLES
  store,         \* the entities and relationships tables
  graph,         \* KnowledgeGraph.graph
  last_refresh,  \* KnowledgeGraph._last_refresh
  pc,            \* pc[b]: where build_graph invocation b is
  as_of,         \* as_of[b]: its as_of argument
  pre,           \* the graph when build_graph was last called
  ret,           \* ret[b]: the value invocation b returned
  seen,          \* what the last graph query returned
  search,        \* the HybridSearch.search or _fuse_results call in progress
  extractor      \* the EntityExtractor call in progress

vars == <<store, graph, last_refresh, pc, as_of, pre, ret, seen, search, extractor>>

Suspended(b) == pc[b] \in {"entities_query", "relationships_query"}

NoResult == [op |-> "none"]

\* filters.get(...) is None
NoFilter == "None"

IdleSearch ==
  [pc |-> "idle", query |-> "", mode |-> "", filters |-> [conversation_id |-> NoFilter,
   entity_type |-> NoFilter], limit |-> 0, min_score |-> 0, results |-> << >>, out |-> << >>,
   failure |-> "none", ran |-> << >>]

\* no EntityExtractor method is running
IdleExtractor ==
  [pc |-> "idle", text |-> << >>, entity_name |-> << >>, pos |-> 0, mentions |-> << >>,
   passes |-> 0, entities |-> << >>, out |-> << >>]

InitGraph ==
  /\ graph = EmptyGraph
  /\ last_refresh = None
  /\ pc = [b \in Builds |-> "idle"]
  /\ as_of = [b \in Builds |-> 0]
  /\ pre = EmptyGraph
  /\ ret = [b \in Builds |-> 0]
  /\ seen = NoResult
  /\ search = IdleSearch
  /\ extractor = IdleExtractor

Init ==
  /\ store \in Stores
  /\ InitGraph

\* A build_graph that does not clear the graph before loading: C17 does
\* not hold of it.
BuildStartKeepsGraph(b, t) ==
  /\ ~ Suspended(b)
  /\ pc' = [pc EXCEPT ![b] = "entities_query"]
  /\ as_of' = [as_of EXCEPT ![b] = t]
  /\ pre' = graph
  /\ graph' = graph
  /\ ret' = [ret EXCEPT ![b] = 0]
  /\ UNCHANGED <<extractor, store, last_refresh, seen, search>>

\* build_graph up to its first await: graph.clear(), then the entities query
BuildStart(b, t) ==
  /\ ~ Suspended(b)
  /\ pc' = [pc EXCEPT ![b] = "entities_query"]
  /\ as_of' = [as_of EXCEPT ![b] = t]
  /\ pre' = graph
  /\ graph' = EmptyGraph
  /\ ret' = [ret EXCEPT ![b] = 0]
  /\ UNCHANGED <<extractor, store, last_refresh, seen, search>>

\* the entities query returns: add the nodes, then the relationships query
BuildEntities(b) ==
  /\ pc[b] = "entities_query"
  /\ graph' = AddNodes(graph, ValidEntities(store, as_of[b]))
  /\ pc' = [pc EXCEPT ![b] = "relationships_query"]
  /\ UNCHANGED <<extractor, store, last_refresh, as_of, pre, ret, seen, search>>

\* the relationships query returns: add the edges, record the refresh, return
BuildRelationships(b, now) ==
  /\ pc[b] = "relationships_query"
  /\ graph' = AddEdges(graph, ValidRelationships(store, as_of[b]))
  /\ last_refresh' = now
  /\ ret' = [ret EXCEPT ![b] = Cardinality(NodesOf(graph'))]
  /\ pc' = [pc EXCEPT ![b] = "done"]
  /\ UNCHANGED <<extractor, store, as_of, pre, seen, search>>

\* session.execute raises at either query: the exception leaves build_graph
BuildFail(b) ==
  /\ Suspended(b)
  /\ pc' = [pc EXCEPT ![b] = "failed"]
  /\ UNCHANGED <<extractor, store, graph, last_refresh, as_of, pre, ret, seen, search>>

\* get_graph_stats: node and edge counts and the last refresh
GetGraphStats(g) ==
  [op |-> "stats", num_nodes |-> Cardinality(NodesOf(g)),
   num_edges |-> Cardinality(g.edges)]

\* query_knowledge_graph(operation="stats") on a graph that has nodes: no
\* build is started and the graph is read at once
QueryStats ==
  /\ NodesOf(graph) # {}
  /\ seen' = GetGraphStats(graph)
  /\ UNCHANGED <<extractor, store, graph, last_refresh, pc, as_of, pre, ret, search>>

\* One build_graph at a time, with queries running while it is suspended.
Next ==
  \/ \E t \in Times : BuildStart(1, t)
  \/ BuildEntities(1)
  \/ \E now \in Times : BuildRelationships(1, now)
  \/ BuildFail(1)
  \/ QueryStats

Spec == Init /\ [][Next]_vars

\* Overlapping build_graph invocations on the shared graph.
NextOverlap ==
  \/ \E b \in Builds, t \in Times : BuildStart(b, t)
  \/ \E b \in Builds : BuildEntities(b)
  \/ \E b \in Builds, now \in Times : BuildRelationships(b, now)
  \/ \E b \in Builds : BuildFail(b)

SpecOverlap == Init /\ [][NextOverlap]_vars

(***************************************************************************)
(* Graph queries.  They are synchronous: each is one action.               *)
(***************************************************************************)

\* get_neighbors, one pass of `for level in range(1, depth + 1)`:
\* graph.neighbors(node) of a MultiDiGraph yields the successors of node
\* A traversal without the `if neighbor not in visited` test: C15 does not
\* hold of it.
RECURSIVE LevelsRevisiting(_, _, _, _, _, _)
LevelsRevisiting(g, current_level, visited, level, depth, relationship_types) ==
  IF level > depth THEN << >>
  ELSE LET next_level ==
             {n \in NodesOf(g) :
                \E node \in current_level : \E e \in g.edges :
                   /\ e.u = node /\ e.v = n
                   /\ (relationship_types = {} \/ e.relationship_type \in relationship_types)}
           rest == LevelsRevisiting(g, next_level, visited \cup next_level, level + 1,
                                    depth, relationship_types)
       IN IF next_level # {} THEN (level :> next_level) @@ rest ELSE rest

RECURSIVE NeighborLevels(_, _, _, _, _, _)
NeighborLevels(g, current_level, visited, level, depth, relationship_types) ==
  IF level > depth THEN << >>
  ELSE LET next_level ==
             {n \in NodesOf(g) \ visited :
                \E node \in current_level : \E e \in g.edges :
                   /\ e.u = node /\ e.v = n
                   /\ (relationship_types = {} \/ e.relationship_type \in relationship_types)}
           rest == NeighborLevels(g, next_level, visited \cup next_level, level + 1,
                                  depth, relationship_types)
       IN IF next_level # {} THEN (level :> next_level) @@ rest ELSE rest

\* get_neighbors: level k holds the ids listed under "depth_k"
GetNeighbors(g, entity_id, depth, relationship_types) ==
  IF entity_id \notin NodesOf(g) THEN << >>
  ELSE NeighborLevels(g, {entity_id}, {entity_id}, 1, depth, relationship_types)

\* graph.to_undirected(): adjacency in either direction
Adjacent(g, n) ==
  {e.v : e \in {x \in g.edges : x.u = n}} \cup {e.u : e \in {x \in g.edges : x.v = n}}

\* nx.single_source_shortest_path_length(graph.to_undirected(), source, cutoff)
RECURSIVE PathLengths(_, _, _, _, _)
PathLengths(g, frontier, found, d, cutoff) ==
  IF d > cutoff \/ frontier = {} THEN << >>
  ELSE LET next == UNION {Adjacent(g, n) : n \in frontier} \ found
       IN [n \in frontier |-> d] @@ PathLengths(g, next, found \cup next, d + 1, cutoff)

ShortestPathLength(g, source, cutoff) == PathLengths(g, {source}, {source}, 0, cutoff)

\* nx.single_source_shortest_path_length on the directed graph itself
RECURSIVE DirectedLengths(_, _, _, _, _)
DirectedLengths(g, frontier, found, d, cutoff) ==
  IF d > cutoff \/ frontier = {} THEN << >>
  ELSE LET next == {e.v : e \in {x \in g.edges : x.u \in frontier}} \ found
       IN [n \in frontier |-> d] @@ DirectedLengths(g, next, found \cup next, d + 1, cutoff)

DirectedPathLength(g, source, cutoff) == DirectedLengths(g, {source}, {source}, 0, cutoff)

\* A find_related_entities that measures distances without to_undirected():
\* C16 does not hold of it.
FindRelatedDirected(g, entity_id, entity_type, max_distance) ==
  IF entity_id \notin NodesOf(g) THEN {<< >>}
  ELSE LET dist == DirectedPathLength(g, entity_id, max_distance)
           related ==
             {[id |-> t, name |-> g.nodes[t].name, entity_type |-> g.nodes[t].entity_type,
               distance |-> dist[t], confidence |-> g.nodes[t].confidence] :
                t \in {x \in DOMAIN dist \ {entity_id} :
                         entity_type = NoFilter \/ g.nodes[x].entity_type = entity_type}}
           n == Cardinality(related)
       IN {seq \in [1..n -> related] :
             /\ \A i, j \in 1..n : i # j => seq[i] # seq[j]
             /\ \A i, j \in 1..n : i < j =>
                  \/ seq[i].distance < seq[j].distance
                  \/ /\ seq[i].distance = seq[j].distance
                     /\ seq[i].confidence >= seq[j].confidence}

\* find_related_entities: every list that `related.sort(key=(distance,
\* -confidence))` can leave, ties standing in the order networkx found them
FindRelatedEntities(g, entity_id, entity_type, max_distance) ==
  IF entity_id \notin NodesOf(g) THEN {<< >>}
  ELSE LET dist == ShortestPathLength(g, entity_id, max_distance)
           related ==
             {[id |-> t, name |-> g.nodes[t].name, entity_type |-> g.nodes[t].entity_type,
               distance |-> dist[t], confidence |-> g.nodes[t].confidence] :
                t \in {x \in DOMAIN dist \ {entity_id} :
                         entity_type = NoFilter \/ g.nodes[x].entity_type = entity_type}}
           n == Cardinality(related)
       IN {seq \in [1..n -> related] :
             /\ \A i, j \in 1..n : i # j => seq[i] # seq[j]
             /\ \A i, j \in 1..n : i < j =>
                  \/ seq[i].distance < seq[j].distance
                  \/ /\ seq[i].distance = seq[j].distance
                     /\ seq[i].confidence >= seq[j].confidence}

\* The stores whose snapshots the query specification starts from: e1 and e2
\* valid or not, every relationship present or absent.
QueryStores ==
  {[entities |-> {Entity(e, Always) : e \in ents},
    relationships |-> {Relationship(r, Always) : r \in rels}] :
      ents \in {x \in SUBSET EntityIds : {"e3", "e4"} \subseteq x}, rels \in SUBSET RelIds}

InitQuery ==
  /\ store \in QueryStores
  /\ graph = BuildAlone(store, 0)
  /\ last_refresh = 0
  /\ pc = [b \in Builds |-> "idle"]
  /\ as_of = [b \in Builds |-> 0]
  /\ pre = EmptyGraph
  /\ ret = [b \in Builds |-> 0]
  /\ seen = NoResult
  /\ search = IdleSearch
  /\ extractor = IdleExtractor

Depths == 1..MaxDepth

\* KnowledgeGraph.get_neighbors(entity_id, depth, relationship_types)
QueryNeighbors(entity_id, depth, relationship_types) ==
  /\ seen' = [op |-> "neighbors", entity_id |-> entity_id, depth |-> depth,
              relationship_types |-> relationship_types,
              levels |-> GetNeighbors(graph, entity_id, depth, relationship_types)]
  /\ UNCHANGED <<extractor, store, graph, last_refresh, pc, as_of, pre, ret, search>>

\* The walks of nx.all_simple_paths over a MultiDiGraph from the last node of
\* visited: one per sequence of edges that reaches target without repeating a
\* node and has at most cutoff edges; parallel edges give separate walks.
RECURSIVE SimpleEdgePaths(_, _, _, _, _)
SimpleEdgePaths(g, visited, keys, target, cutoff) ==
  IF Len(keys) >= cutoff THEN {}
  ELSE UNION {IF e.v = target
              THEN {[nodes |-> Append(visited, e.v), keys |-> Append(keys, e.key)]}
              ELSE SimpleEdgePaths(g, Append(visited, e.v), Append(keys, e.key),
                                   target, cutoff) :
                e \in {x \in g.edges :
                         /\ x.u = visited[Len(visited)]
                         /\ \A i \in 1..Len(visited) : visited[i] # x.v}}

\* nx.all_simple_paths(graph, source, target, cutoff): the results it can give.
\* For source = target the library yields nothing or the one-node path,
\* depending on its version.
AllSimplePaths(g, source, target, cutoff) ==
  IF source = target
  THEN {{}, {[nodes |-> <<source>>, keys |-> << >>]}}
  ELSE {SimpleEdgePaths(g, <<source>>, << >>, target, cutoff)}

\* find_paths(source_id, target_id, max_depth) without cutoff: the lists it
\* can return, each as the set of its entries (one entry per walk)
FindPaths(g, source_id, target_id, max_depth) ==
  IF source_id \notin NodesOf(g) \/ target_id \notin NodesOf(g) THEN {{}}
  ELSE AllSimplePaths(g, source_id, target_id, max_depth)

\* find_shortest_path returned None
NoPath == << >>

\* The breadth-first search of nx.shortest_path: paths holds the shortest
\* directed paths to the nodes of the current level, found the nodes reached
\* so far. The result is the set of paths the search can end with.
RECURSIVE BfsPaths(_, _, _, _)
BfsPaths(g, paths, found, target) ==
  LET hit == {p \in paths : p[Len(p)] = target}
      step == UNION {{Append(p, e.v) :
                        e \in {x \in g.edges : x.u = p[Len(p)] /\ x.v \notin found}} :
                       p \in paths}
  IN IF hit # {} THEN hit
     ELSE IF step = {} THEN {NoPath}
     ELSE BfsPaths(g, step, found \cup {q[Len(q)] : q \in step}, target)

\* A search that returns any simple directed path, not a shortest one: C14
\* does not hold of it.
FindSomePath(g, source_id, target_id) ==
  IF source_id \notin NodesOf(g) \/ target_id \notin NodesOf(g) THEN {NoPath}
  ELSE IF source_id = target_id THEN {<<source_id>>}
  ELSE LET all == {p.nodes : p \in SimpleEdgePaths(g, <<source_id>>, << >>, target_id,
                                                    Cardinality(NodesOf(g)))}
       IN IF all = {} THEN {NoPath} ELSE all

\* find_shortest_path(source_id, target_id): the values it can return;
\* nx.shortest_path gives one of the directed paths with the fewest edges and
\* raises NetworkXNoPath when there is none
FindShortestPath(g, source_id, target_id) ==
  IF source_id \notin NodesOf(g) \/ target_id \notin NodesOf(g) THEN {NoPath}
  ELSE BfsPaths(g, {<<source_id>>}, {source_id}, target_id)

PathDepths == 0..(MaxDepth + 1)

\* KnowledgeGraph.find_paths(source_id, target_id, max_depth)
QueryPaths(source_id, target_id, max_depth) ==
  /\ \E paths \in FindPaths(graph, source_id, target_id, max_depth) :
       seen' = [op |-> "paths", source_id |-> source_id, target_id |-> target_id,
                max_depth |-> max_depth, paths |-> paths]
  /\ UNCHANGED <<extractor, store, graph, last_refresh, pc, as_of, pre, ret, search>>

\* KnowledgeGraph.find_shortest_path(source_id, target_id)
QueryShortestPath(source_id, target_id) ==
  /\ \E path \in FindShortestPath(graph, source_id, target_id) :
       seen' = [op |-> "shortest_path", source_id |-> source_id,
                target_id |-> target_id, path |-> path]
  /\ UNCHANGED <<extractor, store, graph, last_refresh, pc, as_of, pre, ret, search>>

Distances == 0..MaxDepth

\* A find_related_entities that makes self.graph itself undirected where the
\* code measures distances on the copy to_undirected() returns: C21 does not
\* hold of it.
QueryRelatedInPlace(entity_id, entity_type, max_distance) ==
  /\ \E related \in FindRelatedEntities(graph, entity_id, entity_type, max_distance) :
       seen' = [op |-> "related", entity_id |-> entity_id, entity_type |-> entity_type,
                max_distance |-> max_distance, related |-> related]
  /\ graph' = [graph EXCEPT !.edges = @ \cup {[e EXCEPT !.u = e.v, !.v = e.u] : e \in graph.edges}]
  /\ UNCHANGED <<extractor, store, last_refresh, pc, as_of, pre, ret, search>>

\* KnowledgeGraph.find_related_entities(entity_id, entity_type, max_distance)
QueryRelated(entity_id, entity_type, max_distance) ==
  /\ \E related \in FindRelatedEntities(graph, entity_id, entity_type, max_distance) :
       seen' = [op |-> "related", entity_id |-> entity_id, entity_type |-> entity_type,
                max_distance |-> max_distance, related |-> related]
  /\ UNCHANGED <<extractor, store, graph, last_refresh, pc, as_of, pre, ret, search>>

\* get_entity_context returned {}
EmptyContext == [found |-> FALSE]

\* get_entity_context raised KeyError: graph.nodes[...]["name"] of a node
\* that add_edge created without attributes
ContextRaised == [found |-> TRUE, raised |-> TRUE]

\* get_entity_context(entity_id, depth); the two relationship lists hold one
\* entry per edge, told apart here by the edge key
GetEntityContext(g, entity_id, depth) ==
  IF entity_id \notin NodesOf(g) THEN EmptyContext
  ELSE LET out_edges == {e \in g.edges : e.u = entity_id}
           in_edges == {e \in g.edges : e.v = entity_id}
       IN IF \/ \E e \in out_edges : ~ g.nodes[e.v].has_attrs
             \/ \E e \in in_edges : ~ g.nodes[e.u].has_attrs
          THEN ContextRaised
          ELSE [found |-> TRUE, raised |-> FALSE,
                entity |-> g.nodes[entity_id],
                neighbors |-> GetNeighbors(g, entity_id, depth, {}),
                outgoing_relationships |->
                  {[key |-> e.key, target_id |-> e.v, target_name |-> g.nodes[e.v].name,
                    relationship_type |-> e.relationship_type] : e \in out_edges},
                incoming_relationships |->
                  {[key |-> e.key, source_id |-> e.u, source_name |-> g.nodes[e.u].name,
                    relationship_type |-> e.relationship_type] : e \in in_edges},
                stats |-> [out_degree |-> Cardinality(out_edges),
                           in_degree |-> Cardinality(in_edges),
                           total_degree |-> Cardinality(out_edges) + Cardinality(in_edges)]]

\* KnowledgeGraph.get_entity_context(entity_id, depth)
QueryContext(entity_id, depth) ==
  /\ seen' = [op |-> "context", entity_id |-> entity_id, depth |-> depth,
              result |-> GetEntityContext(graph, entity_id, depth)]
  /\ UNCHANGED <<extractor, store, graph, last_refresh, pc, as_of, pre, ret, search>>

\* Entity.conversation_id of the stored entities, and the messages of the
\* conversations
ConversationId(e) == IF e \in {"e1", "e3"} THEN "c1" ELSE NoFilter

MessagesOf(conversation_id) ==
  IF conversation_id = "c1" THEN {"m1", "m2"} ELSE {}

\* A search_by_entity that fetches the entity before it looks at the graph:
\* C20 does not hold of it.
SearchByEntityFetchesFirst(s, g, entity_id, depth, limit) ==
  {[error |-> entity_id \notin NodesOf(g), queried |-> TRUE,
    context |-> GetEntityContext(g, entity_id, depth), has_messages |-> FALSE,
    related_messages |-> << >>]}

\* HybridSearch.search_by_entity(session, entity_id, depth, limit): the values
\* it can return; queried tells whether the session was used
SearchByEntity(s, g, entity_id, depth, limit) ==
  LET context == GetEntityContext(g, entity_id, depth)
      stored == \E row \in s.entities : row.id = entity_id
  IN IF entity_id \notin NodesOf(g)
     THEN {[error |-> TRUE, queried |-> FALSE, context |-> EmptyContext,
            has_messages |-> FALSE, related_messages |-> << >>]}
     ELSE IF context = ContextRaised
     THEN {[error |-> FALSE, queried |-> FALSE, context |-> context,
            has_messages |-> FALSE, related_messages |-> << >>]}
     ELSE IF stored /\ ConversationId(entity_id) # NoFilter
     THEN {[error |-> FALSE, queried |-> TRUE, context |-> context,
            has_messages |-> TRUE, related_messages |-> messages] :
             messages \in Selections(MessagesOf(ConversationId(entity_id)), limit)}
     ELSE {[error |-> FALSE, queried |-> TRUE, context |-> context,
            has_messages |-> FALSE, related_messages |-> << >>]}

\* HybridSearch.search_by_entity(session, entity_id, depth, limit)
QuerySearchByEntity(entity_id, depth, limit) ==
  /\ \E result \in SearchByEntity(store, graph, entity_id, depth, limit) :
       seen' = [op |-> "search_by_entity", entity_id |-> entity_id, depth |-> depth,
                limit |-> limit, result |-> result]
  /\ UNCHANGED <<extractor, store, graph, last_refresh, pc, as_of, pre, ret, search>>

\* nx.weakly_connected_components: the nodes joined to reached by edges taken
\* in either direction
RECURSIVE Component(_, _)
Component(g, reached) ==
  LET more == reached \cup UNION {Adjacent(g, n) : n \in reached}
  IN IF more = reached THEN reached ELSE Component(g, more)

\* get_connected_components()
GetConnectedComponents(g) == {Component(g, {n}) : n \in NodesOf(g)}

\* KnowledgeGraph.get_connected_components()
QueryComponents ==
  /\ seen' = [op |-> "components", components |-> GetConnectedComponents(graph)]
  /\ UNCHANGED <<extractor, store, graph, last_refresh, pc, as_of, pre, ret, search>>

\* get_centrality_scores(limit): the sets of entity ids the returned dict can
\* have as keys, the `limit` best by nx.pagerank or all of them when there are
\* fewer; the scores themselves are left to the library
GetCentralityScores(g, limit) ==
  IF NodesOf(g) = {} THEN {{}}
  ELSE {top \in SUBSET NodesOf(g) : Cardinality(top) = Min(limit, Cardinality(NodesOf(g)))}

\* KnowledgeGraph.get_centrality_scores(limit)
QueryCentrality(limit) ==
  /\ \E top \in GetCentralityScores(graph, limit) :
       seen' = [op |-> "centrality", limit |-> limit, top |-> top]
  /\ UNCHANGED <<extractor, store, graph, last_refresh, pc, as_of, pre, ret, search>>

\* list(self.graph.nodes())[:max_nodes]: the node sets it can give.  Nodes
\* stand in insertion order, the nodes build_graph added from entity rows
\* first (in the order of the rows), then the endpoints add_edge created.
FirstNodes(g, max_nodes) ==
  LET loaded == {n \in NodesOf(g) : g.nodes[n].has_attrs}
  IN {first \in SUBSET NodesOf(g) :
        /\ Cardinality(first) = Min(max_nodes, Cardinality(NodesOf(g)))
        /\ (first \subseteq loaded \/ loaded \subseteq first)}

\* node_id.replace("-", "_"): the ids of the model hold no "-"
SafeId(node_id) == node_id

\* the shape of the node line for an entity type
Shape(entity_type) ==
  CASE entity_type = "person" -> "stadium"
    [] entity_type \in {"file", "code"} -> "trapezoid"
    [] entity_type = "concept" -> "rhombus"
    [] OTHER -> "rectangle"

\* visualize_mermaid(entity_ids, max_nodes): the diagrams it can return, each
\* as its node lines and its edge lines; entity_ids = {} stands for None and
\* for the empty list, which `if entity_ids:` treats alike.  subgraph() keeps
\* the listed ids that are nodes and the edges between them.
VisualizeMermaid(g, entity_ids, max_nodes) ==
  {[nodes |-> {[id |-> SafeId(n),
                name |-> IF g.nodes[n].has_attrs THEN g.nodes[n].name ELSE n,
                shape |-> Shape(IF g.nodes[n].has_attrs THEN g.nodes[n].entity_type
                                ELSE "unknown")] : n \in subgraph},
    edges |-> {[source |-> SafeId(e.u), target |-> SafeId(e.v), key |-> e.key,
                rel_type |-> e.relationship_type] :
                 e \in {x \in g.edges : x.u \in subgraph /\ x.v \in subgraph}}] :
     subgraph \in IF entity_ids # {} THEN {entity_ids \cap NodesOf(g)}
                  ELSE FirstNodes(g, max_nodes)}

MaxNodesArgs == 0..MaxLimit

\* KnowledgeGraph.visualize_mermaid(entity_ids, max_nodes)
QueryMermaid(entity_ids, max_nodes) ==
  /\ \E diagram \in VisualizeMermaid(graph, entity_ids, max_nodes) :
       seen' = [op |-> "mermaid", entity_ids |-> entity_ids, max_nodes |-> max_nodes,
                diagram |-> diagram]
  /\ UNCHANGED <<extractor, store, graph, last_refresh, pc, as_of, pre, ret, search>>

\* cutoff is None
NoCutoff == -1

\* find_paths(source_id, target_id, max_depth, cutoff): the pairs of the list
\* nx.all_simple_paths gave (all) and the list returned (paths); `if cutoff:`
\* takes paths[:cutoff] only for a cutoff that is neither None nor 0
FindPathsCutoff(g, source_id, target_id, max_depth, cutoff) ==
  {[all |-> all, paths |-> IF cutoff # NoCutoff /\ cutoff # 0 THEN Prefix(all, cutoff) ELSE all] :
     all \in UNION {Selections(found, Cardinality(found)) :
                      found \in FindPaths(g, source_id, target_id, max_depth)}}

Cutoffs == {NoCutoff} \cup 0..MaxLimit

\* KnowledgeGraph.find_paths(source_id, target_id, max_depth, cutoff)
QueryPathsCutoff(source_id, target_id, max_depth, cutoff) ==
  /\ \E found \in FindPathsCutoff(graph, source_id, target_id, max_depth, cutoff) :
       seen' = [op |-> "paths_cutoff", source_id |-> source_id, target_id |-> target_id,
                max_depth |-> max_depth, cutoff |-> cutoff, all |-> found.all,
                paths |-> found.paths]
  /\ UNCHANGED <<extractor, store, graph, last_refresh, pc, as_of, pre, ret, search>>

\* Entity.event_time and Message.timestamp of the stored rows
EventTime(e) == IF e \in {"e1", "e2"} THEN 0 ELSE 1

MessageTime(m) == IF m = "m1" THEN 0 ELSE 1

Messages == {"m1", "m2", "m3"}

\* HybridSearch.search_by_time_range(session, start_time, end_time,
\* entity_types, limit): the values it can return; entity_types = {} stands
\* for None.  Its two queries read the store only.
SearchByTimeRange(s, start_time, end_time, entity_types, limit) ==
  {[entities |-> entities, messages |-> messages] :
     entities \in Selections({row.id : row \in {x \in s.entities :
                                /\ EventTime(x.id) >= start_time
                                /\ EventTime(x.id) <= end_time
                                /\ (entity_types = {} \/ x.entity_type \in entity_types)}},
                             limit),
     messages \in Selections({m \in Messages : /\ MessageTime(m) >= start_time
                                               /\ MessageTime(m) <= end_time}, limit)}

\* HybridSearch.search_by_time_range(session, start_time, end_time, entity_types, limit)
QuerySearchByTimeRange(start_time, end_time, entity_types, limit) ==
  /\ \E result \in SearchByTimeRange(store, start_time, end_time, entity_types, limit) :
       seen' = [op |-> "search_by_time_range", start_time |-> start_time,
                end_time |-> end_time, result |-> result]
  /\ UNCHANGED <<extractor, store, graph, last_refresh, pc, as_of, pre, ret, search>>

\* KnowledgeGraph.get_graph_stats()
QueryGraphStats ==
  /\ seen' = GetGraphStats(graph)
  /\ UNCHANGED <<extractor, store, graph, last_refresh, pc, as_of, pre, ret, search>>

\* the result goes back to the caller of the query
QueryReturn ==
  /\ seen # NoResult
  /\ seen' = NoResult
  /\ UNCHANGED <<extractor, store, graph, last_refresh, pc, as_of, pre, ret, search>>

\* the server answers one query at a time
NextQuery ==
  \/ /\ seen = NoResult
     /\ \/ \E e \in EntityIds, d \in Depths, ts \in {{}, {"works_on"}} :
             QueryNeighbors(e, d, ts)
        \/ \E e \in EntityIds, t \in EntityIds, d \in PathDepths : QueryPaths(e, t, d)
        \/ \E e \in EntityIds, t \in EntityIds : QueryShortestPath(e, t)
        \/ \E e \in EntityIds, ty \in {NoFilter, "person", "project"}, d \in Distances :
             QueryRelated(e, ty, d)
        \/ \E e \in EntityIds, d \in Depths : QueryContext(e, d)
        \/ \E e \in EntityIds, l \in 1..MaxLimit : QuerySearchByEntity(e, 1, l)
        \/ QueryComponents
        \/ \E l \in 0..MaxLimit : QueryCentrality(l)
        \/ \E ids \in SUBSET EntityIds, n \in MaxNodesArgs : QueryMermaid(ids, n)
        \/ \E e \in EntityIds, t \in EntityIds, d \in Depths, c \in Cutoffs :
             QueryPathsCutoff(e, t, d, c)
        \/ \E t1 \in Times, t2 \in Times, ty \in {{}, {"person"}} :
             QuerySearchByTimeRange(t1, t2, ty, MaxLimit)
        \/ QueryGraphStats
  \/ QueryReturn

SpecQuery == InitQuery /\ [][NextQuery]_vars

(***************************************************************************)
(* HybridSearch.  Scores are exact rationals, held as integer multiples of *)
(* 1/Scale: Scale is the least common multiple of 61..65, so 1/(60 + r) is *)
(* exact for every rank r <= 5, as are the tenths, 1/1.3 and 1/1.6.        *)
(***************************************************************************)
Scale == 64 * 63 * 5 * 13 * 31 * 61

Frac(n, d) == (Scale \div d) * n

\* k = 60, the RRF constant
K == 60
\* find_related_entities(..., max_distance=2)
MaxDistance == 2
\* .limit(5): top 5 matching entities
SeedLimit == 5

\* 1.0 / (k + rank)
RRF(rank) == Scale \div (K + rank)

SearchResult(item_id, item_type, score, source, metadata) ==
  [item_id |-> item_id, item_type |-> item_type, score |-> score, source |-> source,
   metadata |-> metadata]

\* list.sort(key=score, reverse=True) and sorted(..., reverse=True): stable,
\* equal scores keep their order
RECURSIVE InsertDesc(_, _)
InsertDesc(sorted, x) ==
  IF sorted = << >> THEN <<x>>
  ELSE IF Head(sorted).score >= x.score
       THEN <<Head(sorted)>> \o InsertDesc(Tail(sorted), x)
       ELSE <<x>> \o sorted

RECURSIVE SortedDesc(_)
SortedDesc(seq) ==
  IF seq = << >> THEN << >>
  ELSE InsertDesc(SortedDesc(SubSeq(seq, 1, Len(seq) - 1)), seq[Len(seq)])

\* the values of seq in order of first appearance (the key order of a dict)
RECURSIVE FirstSeen(_)
FirstSeen(seq) ==
  IF seq = << >> THEN << >>
  ELSE LET init == FirstSeen(SubSeq(seq, 1, Len(seq) - 1))
           x == seq[Len(seq)]
       IN IF \E i \in 1..Len(init) : init[i] = x THEN init ELSE Append(init, x)

\* key = f"{result.item_type}:{result.item_id}"
Key(r) == <<r.item_type, r.item_id>>

\* by_source[source], sorted by score, each result with its rank from 1
RankedSource(results, source) ==
  LET sorted == SortedDesc(SelectSeq(results, LAMBDA r : r.source = source))
  IN [i \in 1..Len(sorted) |-> [result |-> sorted[i], rank |-> i]]

\* the (rank, result) pairs in the order the two nested loops visit them
RECURSIVE RankedAll(_, _)
RankedAll(results, sources) ==
  IF sources = << >> THEN << >>
  ELSE RankedSource(results, Head(sources)) \o RankedAll(results, Tail(sources))

\* rrf_scores[key]: one 1/(k + rank) for every visited pair with that key
RECURSIVE RrfScore(_, _)
RrfScore(ranked, key) ==
  IF ranked = << >> THEN 0
  ELSE (IF Key(Head(ranked).result) = key THEN RRF(Head(ranked).rank) ELSE 0)
       + RrfScore(Tail(ranked), key)

\* item_map[key]: the last visited result with that key
ItemMap(ranked, key) ==
  LET last == CHOOSE i \in 1..Len(ranked) :
                /\ Key(ranked[i].result) = key
                /\ \A j \in (i + 1)..Len(ranked) : Key(ranked[j].result) # key
  IN ranked[last].result

\* A fusion that scores every ranked result on its own and never merges the
\* results of one key: C9 does not hold of it.
FusedPerOccurrence(results) ==
  LET sources == FirstSeen([i \in 1..Len(results) |-> results[i].source])
      ranked == RankedAll(results, sources)
  IN SortedDesc([i \in 1..Len(ranked) |->
                   [ranked[i].result EXCEPT !.score = RRF(ranked[i].rank)]])

\* _fuse_results before `fused[:limit]`
Fused(results) ==
  LET sources == FirstSeen([i \in 1..Len(results) |-> results[i].source])
      ranked == RankedAll(results, sources)
      keys == FirstSeen([i \in 1..Len(ranked) |-> Key(ranked[i].result)])
  IN SortedDesc([i \in 1..Len(keys) |->
                   [ItemMap(ranked, keys[i]) EXCEPT !.score = RrfScore(ranked, keys[i])]])

\* _fuse_results(results, limit)
FuseResults(results, limit) == Prefix(Fused(results), limit)

\* A ranking that sorts without the `[:limit]` in the single-strategy modes:
\* C18 does not hold of it.
RankUntruncated(results, mode, limit, min_score) ==
  LET ranked == IF mode = "hybrid" THEN FuseResults(results, limit)
                ELSE SortedDesc(results)
  IN SelectSeq(ranked, LAMBDA r : r.score >= min_score)

\* A ranking without the `if r.score >= min_score` of the return: C1 does
\* not hold of it.
RankOnly(results, mode, limit, min_score) ==
  IF mode = "hybrid" THEN FuseResults(results, limit)
  ELSE Prefix(SortedDesc(results), limit)

\* search, from "Rank and fuse results" to the return
RankAndFilter(results, mode, limit, min_score) ==
  LET ranked == IF mode = "hybrid" THEN FuseResults(results, limit)
                ELSE Prefix(SortedDesc(results), limit)
  IN SelectSeq(ranked, LAMBDA r : r.score >= min_score)

(***************************************************************************)
(* What the collaborators hold for the two queries of the model.           *)
(***************************************************************************)
Queries == {"qa", "qb"}

\* Qdrant points (their ids are uuids, not message ids) with the cosine
\* score of the query and the payload's conversation_id
Points ==
  {[id |-> "p1", score |-> Frac(19, 20), conversation_id |-> "c1"],
   [id |-> "p2", score |-> Frac(3, 10), conversation_id |-> "c2"]}

\* rows of messages whose content is LIKE %query%: count is
\* content.lower().count(query.lower()), length is len(content)
MessagesLike(query) ==
  IF query = "qa"
  THEN {[id |-> "m2", conversation_id |-> "c1", count |-> 1, length |-> 20],
        [id |-> "m3", conversation_id |-> "c2", count |-> 1, length |-> 40]}
  ELSE {}

\* entities whose name holds the query, and whose description alone does
NameLike(query) ==
  CASE query = "qa" -> {"e1", "e3"}
    [] query = "qc" -> {"e1", "e2", "e3", "e4", "e5", "e6"}
    [] OTHER -> {"e1"}
DescriptionLike(query) == IF query = "qb" THEN {"e2"} ELSE {}

EntitiesLike(s, query) ==
  {row \in s.entities : row.id \in NameLike(query) \cup DescriptionLike(query)}

\* self.qdrant.search(limit=..., score_threshold=...): the points scoring at
\* least the threshold, best first, at most limit of them
QdrantSearch(limit, score_threshold) ==
  LET hit == {p \in Points : p.score >= score_threshold}
      ordered == CHOOSE seq \in Selections(hit, Cardinality(hit)) :
                   \A i, j \in 1..Len(seq) : i < j => seq[i].score >= seq[j].score
  IN Prefix(ordered, limit)

\* _semantic_search; raised is whether qdrant.search raised
SemanticSearch(raised, filters, limit, min_score) ==
  IF raised THEN << >>
  ELSE LET hits == QdrantSearch(limit * 2, min_score)
           kept == SelectSeq(hits, LAMBDA h :
                     filters.conversation_id = NoFilter
                       \/ h.conversation_id = filters.conversation_id)
       IN Prefix([i \in 1..Len(kept) |->
                    SearchResult(kept[i].id, "message", kept[i].score, "semantic",
                                 kept[i].conversation_id)], limit)

\* min(count / max(len, 1) * 10, 1.0)
MessageScore(count, length) ==
  IF 10 * count >= length THEN Scale ELSE Frac(10 * count, length)

\* 0.9 when the query is in the name, else 0.6
EntityScore(query, id) == IF id \in NameLike(query) THEN Frac(9, 10) ELSE Frac(6, 10)

\* _keyword_search, given the rows its two queries returned
KeywordSearch(query, messages, entities) ==
  [i \in 1..Len(messages) |->
     SearchResult(messages[i].id, "message",
                  MessageScore(messages[i].count, messages[i].length), "keyword",
                  messages[i].conversation_id)]
  \o [i \in 1..Len(entities) |->
        SearchResult(entities[i].id, "entity", EntityScore(query, entities[i].id),
                     "keyword", entities[i].entity_type)]

\* 1.0 / (1.0 + distance * 0.3)
GraphScore(distance) == Frac(10, 10 + 3 * distance)

\* _graph_search, after the seed query returned: every result list the loop
\* over the seeds can build
RECURSIVE GraphSearch(_, _, _, _)
GraphSearch(g, seeds, filters, limit) ==
  IF seeds = << >> THEN {<< >>}
  ELSE LET seed == Head(seeds)
           rest == GraphSearch(g, Tail(seeds), filters, limit)
       IN IF seed.id \notin NodesOf(g) THEN rest
          ELSE {[i \in 1..Min(limit, Len(related)) |->
                   SearchResult(related[i].id, "entity", GraphScore(related[i].distance),
                                "graph", seed.name)] \o r :
                  related \in FindRelatedEntities(g, seed.id, filters.entity_type, MaxDistance),
                  r \in rest}

(***************************************************************************)
(* HybridSearch.search as the event loop runs it: one action per strategy  *)
(* that the mode selects, then the ranking.                                *)
(***************************************************************************)
Modes == {"hybrid", "semantic", "keyword", "graph", "other"}
Limits == 0..MaxLimit
\* min_score: 0, 1/61, the default 0.5, and 0.7
MinScores == {0, RRF(1), Frac(1, 2), Frac(7, 10)}
Filters == [conversation_id : {NoFilter, "c1"}, entity_type : {NoFilter, "person"}]

\* A search that runs every strategy whatever the mode: C23 does not hold of
\* it.
RunsAlways(mode, stage) == TRUE

\* `if mode in ("hybrid", stage)`
Runs(mode, stage) == mode \in {"hybrid", stage}

\* the next strategy of the mode after stage, or the ranking
After(mode, stage) ==
  CASE stage = "start" /\ Runs(mode, "semantic") -> "semantic"
    [] stage \in {"start", "semantic"} /\ Runs(mode, "keyword") -> "keyword"
    [] stage \in {"start", "semantic", "keyword"} /\ Runs(mode, "graph") -> "graph"
    [] OTHER -> "rank"

graphVars == <<store, graph, last_refresh, pc, as_of, pre, ret, seen, extractor>>

\* search is called: filters = filters or {}, results = []
SearchStart(query, mode, filters, limit, min_score) ==
  /\ search.pc \in {"idle", "done", "raised"}
  /\ search' = [pc |-> After(mode, "start"), query |-> query, mode |-> mode,
                filters |-> filters, limit |-> limit, min_score |-> min_score,
                results |-> << >>, out |-> << >>, failure |-> "none", ran |-> << >>]
  /\ UNCHANGED graphVars

\* results.extend(await self._semantic_search(query, filters, limit, min_score))
SemanticStep(raised) ==
  /\ search.pc = "semantic"
  /\ search' = [search EXCEPT
       !.results = @ \o SemanticSearch(raised, search.filters, search.limit, search.min_score),
       !.failure = IF raised THEN "vector_client" ELSE @,
       !.ran = Append(@, "semantic"),
       !.pc = After(search.mode, "semantic")]
  /\ UNCHANGED graphVars

\* self.embedding_model.encode(query) raises: the call stands before the try
\* of _semantic_search, so the exception leaves _semantic_search and search
SemanticEncodeRaises ==
  /\ search.pc = "semantic"
  /\ search' = [search EXCEPT !.failure = "embedding", !.ran = Append(@, "semantic"),
                           !.pc = "raised"]
  /\ UNCHANGED graphVars

\* results.extend(await self._keyword_search(session, query, filters, limit))
KeywordStep ==
  /\ search.pc = "keyword"
  /\ \E messages \in Selections(
          {m \in MessagesLike(search.query) :
             search.filters.conversation_id = NoFilter
               \/ m.conversation_id = search.filters.conversation_id}, search.limit),
        entities \in Selections(
          {e \in EntitiesLike(store, search.query) :
             search.filters.entity_type = NoFilter
               \/ e.entity_type = search.filters.entity_type}, search.limit) :
       search' = [search EXCEPT
         !.results = @ \o KeywordSearch(search.query, messages, entities),
         !.ran = Append(@, "keyword"),
         !.pc = After(search.mode, "keyword")]
  /\ UNCHANGED graphVars

\* A graph strategy whose seed query has no `.limit(5)`: C28 does not hold
\* of it.
GraphStepEverySeed ==
  /\ search.pc = "graph"
  /\ \E seeds \in Selections(EntitiesLike(store, search.query),
                              Cardinality(EntitiesLike(store, search.query))) :
       \E found \in GraphSearch(graph, seeds, search.filters, search.limit) :
          search' = [search EXCEPT !.results = @ \o found, !.ran = Append(@, "graph"),
                                   !.pc = After(search.mode, "graph")]
  /\ UNCHANGED graphVars

\* results.extend(await self._graph_search(session, query, filters, limit))
GraphStep ==
  /\ search.pc = "graph"
  /\ \E seeds \in Selections(EntitiesLike(store, search.query), SeedLimit) :
       \E found \in GraphSearch(graph, seeds, search.filters, search.limit) :
          search' = [search EXCEPT !.results = @ \o found, !.ran = Append(@, "graph"),
                                   !.pc = After(search.mode, "graph")]
  /\ UNCHANGED graphVars

\* fuse or sort, drop the scores below min_score, return
RankStep ==
  /\ search.pc = "rank"
  /\ search' = [search EXCEPT
       !.out = RankAndFilter(search.results, search.mode, search.limit, search.min_score),
       !.pc = "done"]
  /\ UNCHANGED graphVars

\* The stores of the search specification: e1, e2, e3 valid, r1 and r2 each
\* present or absent.
SearchStores ==
  {[entities |-> {Entity(e, Always) : e \in {"e1", "e2", "e3"}},
    relationships |-> {Relationship(r, Always) : r \in rels}] : rels \in SUBSET {"r1", "r2"}}

InitSearch ==
  /\ store \in SearchStores
  /\ graph = BuildAlone(store, 0)
  /\ last_refresh = 0
  /\ pc = [b \in Builds |-> "idle"]
  /\ as_of = [b \in Builds |-> 0]
  /\ pre = EmptyGraph
  /\ ret = [b \in Builds |-> 0]
  /\ seen = NoResult
  /\ search = IdleSearch
  /\ extractor = IdleExtractor

NextSearch ==
  \/ \E q \in Queries, m \in Modes, f \in Filters, l \in Limits, x \in MinScores :
        SearchStart(q, m, f, l, x)
  \/ \E raised \in BOOLEAN : SemanticStep(raised)
  \/ SemanticEncodeRaises
  \/ KeywordStep
  \/ GraphStep
  \/ RankStep

SpecSearch == InitSearch /\ [][NextSearch]_vars

(***************************************************************************)
(* The graph strategy with more matching entities than seeds: six entities *)
(* match the query "qc"; e6 is valid at 0 or only later and r9 is present  *)
(* or not, so that e6 may be no node of the graph.                         *)
(***************************************************************************)
SeedStores ==
  {[entities |-> {Entity(e, Always) : e \in EntityIds \cup {"e5"}} \cup {Entity("e6", v6)},
    relationships |-> {Relationship(r, Always) : r \in {"r1", "r2", "r7", "r8"} \cup rels}] :
      v6 \in {Always, <<MaxTime, None>>}, rels \in SUBSET {"r9"}}

InitGraphSearch ==
  /\ store \in SeedStores
  /\ graph = BuildAlone(store, 0)
  /\ last_refresh = 0
  /\ pc = [b \in Builds |-> "idle"]
  /\ as_of = [b \in Builds |-> 0]
  /\ pre = EmptyGraph
  /\ ret = [b \in Builds |-> 0]
  /\ seen = NoResult
  /\ search = IdleSearch
  /\ extractor = IdleExtractor

NextGraphSearch ==
  \/ \E ty \in {NoFilter, "person"}, l \in Limits :
        SearchStart("qc", "graph", [conversation_id |-> NoFilter, entity_type |-> ty], l, 0)
  \/ GraphStep
  \/ RankStep

SpecGraphSearch == InitGraphSearch /\ [][NextGraphSearch]_vars

\* search returned its list or raised: the call is over
SearchReturn ==
  /\ search.pc \in {"done", "raised"}
  /\ search' = IdleSearch
  /\ UNCHANGED graphVars

\* The read-only operations of KnowledgeGraph and HybridSearch on a built
\* graph, one request at a time.
NextReadOnly ==
  \/ search.pc = "idle" /\ NextQuery
  \/ seen = NoResult /\ NextSearch
  \/ seen = NoResult /\ SearchReturn

SpecReadOnly == InitSearch /\ [][NextReadOnly]_vars

(***************************************************************************)
(* The search_hybrid tool beside the other tools of the server.  Build 1   *)
(* is the build_graph that search_hybrid awaits when it finds the graph    *)
(* empty; build 2 is a build_graph awaited by another request              *)
(* (extract_entities, create_relationship) running on the same event loop. *)
(***************************************************************************)
ToolModes == {"hybrid", "graph", "keyword"}

\* search_hybrid(query, mode, None, limit) up to its first await: the
\* build_graph call when the mode uses the graph and the graph has no nodes,
\* else the search itself, with the default min_score
SearchHybridStart(query, mode, limit, t) ==
  /\ search.pc \in {"idle", "done", "raised"}
  /\ ~ Suspended(1)
  /\ IF mode \in {"hybrid", "graph"} /\ NodesOf(graph) = {}
     THEN /\ search' = [IdleSearch EXCEPT !.pc = "build", !.query = query, !.mode = mode,
                                          !.limit = limit, !.min_score = Frac(1, 2)]
          /\ pc' = [pc EXCEPT ![1] = "entities_query"]
          /\ as_of' = [as_of EXCEPT ![1] = t]
          /\ pre' = graph
          /\ graph' = EmptyGraph
          /\ ret' = [ret EXCEPT ![1] = 0]
     ELSE /\ search' = [IdleSearch EXCEPT !.pc = After(mode, "start"), !.query = query,
                                          !.mode = mode, !.limit = limit,
                                          !.min_score = Frac(1, 2)]
          /\ pc' = [pc EXCEPT ![1] = "idle"]
          /\ UNCHANGED <<as_of, pre, graph, ret>>
  /\ UNCHANGED <<extractor, store, last_refresh, seen>>

\* the awaited build_graph returned: results = await hybrid_search.search(...)
SearchHybridBuilt ==
  /\ search.pc = "build"
  /\ pc[1] = "done"
  /\ search' = [search EXCEPT !.pc = After(search.mode, "start")]
  /\ UNCHANGED graphVars

\* the awaited build_graph raised: search_hybrid raises
SearchHybridBuildFailed ==
  /\ search.pc = "build"
  /\ pc[1] = "failed"
  /\ search' = [search EXCEPT !.pc = "raised", !.failure = "build"]
  /\ UNCHANGED graphVars

InitServe ==
  /\ store \in SearchStores
  /\ InitGraph

NextServe ==
  \/ \E q \in Queries, m \in ToolModes, t \in Times : SearchHybridStart(q, m, MaxLimit, t)
  \/ SearchHybridBuilt
  \/ SearchHybridBuildFailed
  \/ BuildEntities(1)
  \/ \E now \in Times : BuildRelationships(1, now)
  \/ BuildFail(1)
  \/ \E t \in Times : BuildStart(2, t)
  \/ BuildEntities(2)
  \/ \E now \in Times : BuildRelationships(2, now)
  \/ BuildFail(2)
  \/ \E raised \in BOOLEAN : SemanticStep(raised)
  \/ SemanticEncodeRaises
  \/ KeywordStep
  \/ GraphStep
  \/ RankStep

SpecServe == InitServe /\ [][NextServe]_vars

(***************************************************************************)
(* _fuse_results on its own: the result lists it is handed are drawn from  *)
(* results of the three strategies, those of the fusion example among them *)
(* and one entity the graph strategy reached from two seeds.               *)
(***************************************************************************)
Candidates ==
  {SearchResult("m1", "message", Frac(19, 20), "semantic", "c1"),
   SearchResult("m2", "message", Frac(7, 10), "semantic", "c1"),
   SearchResult("m2", "message", Frac(8, 10), "keyword", "c1"),
   SearchResult("m3", "message", Frac(6, 10), "keyword", "c2"),
   SearchResult("e1", "entity", Frac(9, 10), "keyword", "person"),
   SearchResult("e2", "entity", GraphScore(1), "graph", "e1"),
   SearchResult("e2", "entity", GraphScore(1), "graph", "e3")}

ResultLists == UNION {Selections(Candidates, n) : n \in 0..MaxFuse}

\* fused = self._fuse_results(results, limit)
FuseCall(results, limit) ==
  /\ search.pc = "idle"
  /\ search' = [IdleSearch EXCEPT !.pc = "fused", !.mode = "hybrid", !.results = results,
                                  !.limit = limit, !.out = FuseResults(results, limit)]
  /\ UNCHANGED graphVars

NextFuse ==
  /\ search.pc = "idle"
  /\ \E results \in ResultLists, limit \in 0..MaxFuse : FuseCall(results, limit)

SpecFuse == InitSearch /\ [][NextFuse]_vars

(***************************************************************************)
(* EntityExtractor.extract_entity_mentions and deduplicate_entities.       *)
(* Strings are sequences of characters, so that lower(), find() and the    *)
(* slices are computed and not assumed.                                    *)
(***************************************************************************)
Chars == {"a", "A", "b"}

\* the strings of at most n characters
Strings(n) == UNION {[1..k -> Chars] : k \in 0..n}

\* str.lower()
LowerChar(c) == IF c = "A" THEN "a" ELSE c

Lower(str) == [i \in 1..Len(str) |-> LowerChar(str[i])]

\* str.find(sub, start) for start >= 0: the lowest 0-based index >= start at
\* which sub occurs, -1 when there is none; the empty sub occurs at every
\* index up to len(str)
Find(str, sub, start) ==
  LET at == {i \in start..(Len(str) - Len(sub)) : SubSeq(str, i + 1, i + Len(sub)) = sub}
  IN IF at = {} THEN -1 ELSE CHOOSE i \in at : \A j \in at : i <= j

\* the mentions list is recorded up to this length
MaxMentions == MaxTextLen + 1

\* extract_entity_mentions(text, entity_name, ...) up to the loop: pos = 0
ExtractEntityMentions(text, entity_name) ==
  /\ extractor.pc = "idle"
  /\ extractor' = [IdleExtractor EXCEPT !.pc = "find", !.text = text,
                                        !.entity_name = entity_name]
  /\ UNCHANGED <<store, graph, last_refresh, pc, as_of, pre, ret, seen, search>>

\* one pass of `while True`: find from pos, break on -1, else append the
\* mention and advance pos by len(entity_name); passes is the parity of the
\* number of passes made
MentionsLoop ==
  /\ extractor.pc = "find"
  /\ LET found == Find(Lower(extractor.text), Lower(extractor.entity_name), extractor.pos)
     IN IF found = -1
        THEN extractor' = [extractor EXCEPT !.pc = "returned"]
        ELSE extractor' =
               [extractor EXCEPT
                  !.mentions =
                     IF Len(@) < MaxMentions
                     THEN Append(@, [position |-> found,
                                     mention_text |->
                                       SubSeq(extractor.text, found + 1,
                                              Min(found + Len(extractor.entity_name),
                                                  Len(extractor.text)))])
                     ELSE @,
                  !.pos = found + Len(extractor.entity_name),
                  !.passes = 1 - @]
  /\ UNCHANGED <<store, graph, last_refresh, pc, as_of, pre, ret, seen, search>>

\* key = (entity["name"].lower(), entity["entity_type"])
EntityKey(entity) == <<Lower(entity.name), entity.entity_type>>

\* A deduplication that replaces the kept entity also on equal confidence:
\* C30 does not hold of it.
RECURSIVE DeduplicateKeepsLatest(_)
DeduplicateKeepsLatest(entities) ==
  IF entities = << >> THEN << >>
  ELSE LET kept == DeduplicateKeepsLatest(SubSeq(entities, 1, Len(entities) - 1))
           entity == entities[Len(entities)]
           at == {i \in 1..Len(kept) : EntityKey(kept[i]) = EntityKey(entity)}
       IN IF at = {} THEN Append(kept, entity)
          ELSE LET i == CHOOSE x \in at : TRUE
               IN IF entity.confidence >= kept[i].confidence
                  THEN [kept EXCEPT ![i] = entity] ELSE kept

\* deduplicate_entities(entities): list(seen.values()), the dict keeping the
\* keys in the order of their first insertion
RECURSIVE DeduplicateEntities(_)
DeduplicateEntities(entities) ==
  IF entities = << >> THEN << >>
  ELSE LET kept == DeduplicateEntities(SubSeq(entities, 1, Len(entities) - 1))
           entity == entities[Len(entities)]
           at == {i \in 1..Len(kept) : EntityKey(kept[i]) = EntityKey(entity)}
       IN IF at = {} THEN Append(kept, entity)
          ELSE LET i == CHOOSE x \in at : TRUE
               IN IF entity.confidence > kept[i].confidence
                  THEN [kept EXCEPT ![i] = entity] ELSE kept

\* extracted entities: name, entity_type and confidence in tenths
Extracted ==
  [name : {<<"A">>, <<"a">>}, entity_type : {"person", "tool"}, confidence : {5, 9}]

\* deduplicate_entities(entities)
DeduplicateCall(entities) ==
  /\ extractor.pc = "idle"
  /\ extractor' = [IdleExtractor EXCEPT !.pc = "deduplicated", !.entities = entities,
                                        !.out = DeduplicateEntities(entities)]
  /\ UNCHANGED <<store, graph, last_refresh, pc, as_of, pre, ret, seen, search>>

\* the method returned its list to the caller
ExtractorReturn ==
  /\ extractor.pc \in {"returned", "deduplicated"}
  /\ extractor' = IdleExtractor
  /\ UNCHANGED <<store, graph, last_refresh, pc, as_of, pre, ret, seen, search>>

\* the server before anything was stored
EmptyStore == [entities |-> {}, relationships |-> {}]

InitExtractor ==
  /\ store = EmptyStore
  /\ InitGraph

NextExtractor ==
  \/ \E text \in Strings(MaxTextLen), entity_name \in Strings(MaxNameLen) :
        ExtractEntityMentions(text, entity_name)
  \/ MentionsLoop
  \/ \E entities \in UNION {[1..n -> Extracted] : n \in 0..MaxEntities} :
        DeduplicateCall(entities)
  \/ ExtractorReturn

SpecExtractor == InitExtractor /\ [][NextExtractor]_vars

\* the loop of extract_entity_mentions keeps running once it was entered
SpecExtractorFair == SpecExtractor /\ WF_vars(MentionsLoop)

(***************************************************************************)
(* Claims about build_graph.                                               *)
(***************************************************************************)

\* C3: when the store fails during build_graph, the graph is exactly what it
\* was before the call.
FailedBuildLeavesGraphUnchanged ==
  pc[1] = "failed" => graph = pre

\* C4: a graph query that runs while build_graph is suspended at a store query
\* observes the complete graph from before the build or the complete graph
\* after it.
QueryDuringBuildSeesOldOrNew ==
  [][(QueryStats /\ Suspended(1)) =>
       seen' \in {GetGraphStats(pre), GetGraphStats(BuildAlone(store, as_of[1]))}]_vars

\* C5: when overlapping build_graph invocations have all finished, the graph
\* is the graph one of them would have produced running alone.
OverlappingBuildsYieldOneSnapshot ==
  (\A b \in Builds : pc[b] = "done") =>
     \E b \in Builds : graph = BuildAlone(store, as_of[b])

\* C6: after build_graph(as_of) an entity is a node iff
\* valid_from <= as_of < valid_until (valid_until = None: valid_from <= as_of),
\* and the value returned is the number of such entities.
NodesAreExactlyValidEntities ==
  pc[1] = "done" =>
     /\ \A row \in store.entities : row.id \in NodesOf(graph) <=> ValidAt(row, as_of[1])
     /\ ret[1] = Cardinality(ValidEntities(store, as_of[1]))

\* C17: with unchanged store contents, a build_graph(as_of) that runs to its
\* end after earlier builds and queries leaves the nodes, keyed edges and
\* attributes that a single build_graph(as_of) on an empty graph leaves,
\* whatever the graph held before.
BuildIsIdempotent ==
  pc[1] = "done" => graph = BuildAlone(store, as_of[1])

\* build_graph has completed on a graph that already held nodes, and has
\* left that same graph
RebuiltSameGraph ==
  /\ pc[1] = "done"
  /\ NodesOf(pre) # {}
  /\ pre.edges # {}
  /\ graph = pre

\* C22: after build_graph every relationship valid at as_of is its own edge
\* keyed by its relationship id, so there are as many edges as valid
\* relationships even between one ordered pair; and for every node
\* get_entity_context lists one outgoing entry per outgoing edge and one
\* incoming entry per incoming edge, the list lengths being stats.out_degree
\* and stats.in_degree and total_degree their sum.
EveryRelationshipIsItsOwnEdge ==
  pc[1] = "done" =>
     /\ \A row \in ValidRelationships(store, as_of[1]) :
           \E e \in graph.edges :
              /\ e.key = row.id
              /\ e.u = row.source_entity_id
              /\ e.v = row.target_entity_id
     /\ Cardinality(graph.edges) = Cardinality(ValidRelationships(store, as_of[1]))
     /\ \A n \in NodesOf(graph) :
           LET context == GetEntityContext(graph, n, 1)
           IN /\ context # ContextRaised
              /\ Cardinality(context.outgoing_relationships)
                   = Cardinality({e \in graph.edges : e.u = n})
              /\ Cardinality(context.incoming_relationships)
                   = Cardinality({e \in graph.edges : e.v = n})
              /\ context.stats.out_degree = Cardinality(context.outgoing_relationships)
              /\ context.stats.in_degree = Cardinality(context.incoming_relationships)
              /\ context.stats.total_degree
                   = context.stats.out_degree + context.stats.in_degree

\* C26: for every store and every as_of, also when a relationship valid at
\* as_of names a source or target entity that is not valid at as_of, every
\* endpoint of every edge of the built graph is a node loaded from a valid
\* entity (it carries name and entity_type), and so get_entity_context returns
\* without raising for every node of the built graph.
EdgeEndpointsAreLoadedEntities ==
  pc[1] = "done" =>
     /\ \A e \in graph.edges : graph.nodes[e.u].has_attrs /\ graph.nodes[e.v].has_attrs
     /\ \A n \in NodesOf(graph) : GetEntityContext(graph, n, 1) # ContextRaised

(***************************************************************************)
(* Claims about the graph queries.                                         *)
(***************************************************************************)

\* C7: without a type filter, the nodes get_neighbors reports at depth_k are
\* exactly the nodes at undirected hop distance k from entity_id.
NeighborsAreUndirectedLevels ==
  (seen.op = "neighbors" /\ seen.relationship_types = {} /\ seen.entity_id \in NodesOf(graph)) =>
     LET dist == ShortestPathLength(graph, seen.entity_id, seen.depth)
     IN \A k \in 1..seen.depth :
           {n \in DOMAIN dist : dist[n] = k} =
             (IF k \in DOMAIN seen.levels THEN seen.levels[k] ELSE {})

\* C21: find_paths, find_shortest_path, get_neighbors, get_entity_context,
\* find_related_entities, get_connected_components, get_centrality_scores,
\* visualize_mermaid, get_graph_stats, HybridSearch.search, search_by_entity
\* and search_by_time_range leave the graph's nodes, edges and attributes and
\* the last-refresh instant unchanged.
ReadOnlyOperationsKeepGraph ==
  [][graph' = graph /\ last_refresh' = last_refresh]_vars

\* find_related_entities has returned related entities of a graph that still
\* is the directed graph build_graph left
QueriedGraphStillAsBuilt ==
  /\ seen.op = "related"
  /\ seen.related # << >>
  /\ graph.edges # {}
  /\ graph = BuildAlone(store, 0)
  /\ last_refresh = 0

(***************************************************************************)
(* Claims about HybridSearch.search.                                       *)
(***************************************************************************)
Sources == {"semantic", "keyword", "graph"}

\* C1: in every mode, search returns no item whose score (fused in hybrid
\* mode, native otherwise) is below min_score.
NoScoreBelowMinScore ==
  search.pc = "done" =>
     \A i \in 1..Len(search.out) : search.out[i].score >= search.min_score

\* a search has returned some items after dropping a ranked item that scored
\* below min_score
SearchDroppedLowScore ==
  /\ search.pc = "done"
  /\ search.mode \in {"hybrid", "semantic", "keyword", "graph"}
  /\ search.out # << >>
  /\ \E r \in {RankOnly(search.results, search.mode, search.limit, 0)} :
        /\ Len(search.out) < Len(r)
        /\ \E i \in 1..Len(r) : r[i].score < search.min_score

\* C2: in hybrid mode with min_score = 0.5, when each of the three strategies
\* returned candidates and all native scores are >= 0.5, search returns a
\* non-empty list, every returned score is >= 0.5, and the returned items come
\* from more than one source.
HybridDefaultReturnsSeveralSources ==
  (/\ search.pc = "done"
   /\ search.mode = "hybrid"
   /\ search.min_score = Frac(1, 2)
   /\ \A src \in Sources : \E i \in 1..Len(search.results) : search.results[i].source = src
   /\ \A i \in 1..Len(search.results) : search.results[i].score >= Frac(1, 2))
  => /\ search.out # << >>
     /\ \A i \in 1..Len(search.out) : search.out[i].score >= Frac(1, 2)
     /\ Cardinality({search.out[i].source : i \in 1..Len(search.out)}) > 1

\* C8: in every mode the list search returns never holds two entries with the
\* same (item_type, item_id).
SearchOutputDeduplicated ==
  search.pc = "done" =>
     \A i, j \in 1..Len(search.out) :
        i # j => <<search.out[i].item_type, search.out[i].item_id>>
                   # <<search.out[j].item_type, search.out[j].item_id>>

\* the number of entries of seq equal to r
Count(seq, r) == Cardinality({i \in 1..Len(seq) : seq[i] = r})

\* C18: search returns at most limit results; in a single-strategy mode they
\* are candidates of the strategy in descending score order, and a candidate
\* that scores at least min_score is left out only when limit candidates
\* score as high or higher.
AtMostLimitBestResults ==
  search.pc = "done" =>
     /\ Len(search.out) <= search.limit
     /\ search.mode \in {"semantic", "keyword", "graph"} =>
          /\ \A i, j \in 1..Len(search.out) :
                i < j => search.out[i].score >= search.out[j].score
          /\ \A i \in 1..Len(search.out) :
                Count(search.out, search.out[i]) <= Count(search.results, search.out[i])
          /\ \A i \in 1..Len(search.results) :
                (/\ search.results[i].score >= search.min_score
                 /\ Count(search.out, search.results[i])
                      < Count(search.results, search.results[i]))
                => Cardinality({j \in 1..Len(search.results) :
                                  search.results[j].score >= search.results[i].score})
                     > search.limit

\* a single-strategy search whose strategy produced more than limit
\* candidates has returned limit of them
SearchCutToLimit ==
  /\ search.pc = "done"
  /\ search.mode \in {"semantic", "keyword", "graph"}
  /\ search.limit > 0
  /\ Len(search.results) > search.limit
  /\ Len(search.out) = search.limit

\* C23: search runs exactly the strategies its mode selects: semantic, keyword
\* and graph once each, in that order, for hybrid; the named strategy alone
\* for semantic, keyword or graph; and none for any other mode, which returns
\* the empty list.
SearchRunsSelectedStrategies ==
  search.pc = "done" =>
     /\ search.ran =
          (CASE search.mode = "hybrid" -> <<"semantic", "keyword", "graph">>
             [] search.mode \in {"semantic", "keyword", "graph"} -> <<search.mode>>
             [] OTHER -> << >>)
     /\ \A i \in 1..Len(search.results) : \E j \in 1..Len(search.ran) :
           search.results[i].source = search.ran[j]
     /\ search.mode \notin {"hybrid", "semantic", "keyword", "graph"} => search.out = << >>

\* a search in a mode that names no strategy has returned, for a query and a
\* limit with which the keyword strategy would have found candidates
SearchInUnknownMode ==
  /\ search.pc = "done"
  /\ search.mode = "other"
  /\ search.limit > 0
  /\ search.min_score = 0
  /\ MessagesLike(search.query) # {}

\* C27: in fusion every (item_type, item_id) key gets at most one rank
\* contribution from each source: no fused score exceeds 3/61, and a key held
\* by one source only never scores more than 1/61, also when that source
\* lists the key several times.
OneContributionPerSource ==
  (search.pc = "done" /\ search.mode = "hybrid") =>
     \A i \in 1..Len(search.out) :
        /\ search.out[i].score <= 3 * RRF(1)
        /\ Cardinality({search.results[j].source :
                          j \in {x \in 1..Len(search.results) :
                                   Key(search.results[x]) = Key(search.out[i])}}) = 1
           => search.out[i].score <= RRF(1)

\* C19: when search_hybrid found the graph without nodes and awaited a
\* build_graph, the graph strategy of the request reads the graph only after
\* that build has completed and never while a build_graph has not finished.
GraphStrategyReadsFinishedBuild ==
  [][(search.pc = "graph" /\ search'.pc # "graph" /\ pc[1] # "idle") =>
       (pc[1] = "done" /\ \A b \in Builds : ~ Suspended(b))]_vars

(***************************************************************************)
(* Claims about _fuse_results.                                             *)
(***************************************************************************)
KeysOf(seq) == {<<seq[i].item_type, seq[i].item_id>> : i \in 1..Len(seq)}

\* C9: _fuse_results yields exactly one entry per distinct (item_type,
\* item_id) of its input, cut to the first `limit` entries: no key twice, no
\* key that was not in the input, and min(limit, number of keys) entries.
FusedOneEntryPerKey ==
  search.pc = "fused" =>
     /\ \A i, j \in 1..Len(search.out) :
           i # j => <<search.out[i].item_type, search.out[i].item_id>>
                      # <<search.out[j].item_type, search.out[j].item_id>>
     /\ KeysOf(search.out) \subseteq KeysOf(search.results)
     /\ Len(search.out) = Min(search.limit, Cardinality(KeysOf(search.results)))

\* an untruncated fusion of an input that holds one key from two sources and
\* another key twice from one source
FusedRepeatedKeys ==
  /\ search.pc = "fused"
  /\ search.limit >= Len(search.results)
  /\ \E i, j \in 1..Len(search.results) :
        /\ search.results[i].item_id = search.results[j].item_id
        /\ search.results[i].source # search.results[j].source
  /\ \E i, j \in 1..Len(search.results) :
        /\ i # j
        /\ search.results[i].item_id = search.results[j].item_id
        /\ search.results[i].source = search.results[j].source
  /\ Len(search.out) = Len(search.results) - 2

\* the 1-based rank of the key in the source's results ordered by score
\* descending, 0 when the source does not hold the key
RankIn(results, source, key) ==
  LET ranked == RankedSource(results, source)
      at == {i \in 1..Len(ranked) :
               <<ranked[i].result.item_type, ranked[i].result.item_id>> = key}
  IN IF at = {} THEN 0 ELSE CHOOSE i \in at : \A j \in at : i <= j

\* the sum over the sources the key appears in of 1/(60 + r)
RankSum(results, key) ==
  LET term(source) == IF RankIn(results, source, key) = 0 THEN 0
                      ELSE Scale \div (60 + RankIn(results, source, key))
  IN term("semantic") + term("keyword") + term("graph")

FusionExample ==
  {SearchResult("m1", "message", Frac(19, 20), "semantic", "c1"),
   SearchResult("m2", "message", Frac(7, 10), "semantic", "c1"),
   SearchResult("m2", "message", Frac(8, 10), "keyword", "c1"),
   SearchResult("m3", "message", Frac(6, 10), "keyword", "c2")}

\* C10: _fuse_results gives each key the sum over its sources of 1/(60 + r),
\* r the key's rank in the source, and returns the entries sorted by that sum
\* descending; semantic [m1(0.95), m2(0.70)] with keyword [m2(0.8), m3(0.6)]
\* fuses to m2, m1, m3; a single source keeps its score order.
FusedScoresAreRankSums ==
  (search.pc = "fused" /\ search.limit >= Len(search.results)) =>
     /\ \A i \in 1..Len(search.out) :
           search.out[i].score
             = RankSum(search.results,
                       <<search.out[i].item_type, search.out[i].item_id>>)
     /\ \A i, j \in 1..Len(search.out) :
           i < j => search.out[i].score >= search.out[j].score
     /\ ({search.results[i] : i \in 1..Len(search.results)} = FusionExample
           /\ Len(search.results) = 4)
         => ([i \in 1..Len(search.out) |-> search.out[i].item_id] = <<"m2", "m1", "m3">>)
     /\ (Cardinality({search.results[i].source : i \in 1..Len(search.results)}) = 1)
         => \A i, j \in 1..Len(search.out) :
               i < j =>
                 RankIn(search.results, search.results[1].source,
                        <<search.out[i].item_type, search.out[i].item_id>>)
                 < RankIn(search.results, search.results[1].source,
                          <<search.out[j].item_type, search.out[j].item_id>>)

\* the fused score of the key in the output of _fuse_results
FusedScoreOf(out, key) ==
  LET i == CHOOSE i \in 1..Len(out) : <<out[i].item_type, out[i].item_id>> = key
  IN out[i].score

\* the sources in which the key is ranked within the top 3
TopThreeSources(results, key) ==
  {src \in Sources : RankIn(results, src, key) \in 1..3}

\* C11: an item ranked within the top 3 of two different sources fuses to a
\* strictly higher score than an item ranked within the top 3 of exactly one
\* source that appears in no other source.
TwoSourcesOutscoreOne ==
  (search.pc = "fused" /\ search.limit >= Len(search.results)) =>
     \A x, y \in KeysOf(search.results) :
        (/\ Cardinality(TopThreeSources(search.results, x)) >= 2
         /\ Cardinality(TopThreeSources(search.results, y)) = 1
         /\ Cardinality({src \in Sources : RankIn(search.results, src, y) > 0}) = 1)
        => FusedScoreOf(search.out, x) > FusedScoreOf(search.out, y)

\* C12: when the vector client call or the embedding call of the semantic
\* strategy fails, a hybrid search still completes: nothing is raised to the
\* caller, the semantic strategy contributed no candidate, and the result is
\* the fusion of the keyword and graph candidates.
SemanticFailureIsRecovered ==
  (search.mode = "hybrid" /\ search.failure # "none") =>
     /\ search.pc # "raised"
     /\ \A i \in 1..Len(search.results) : search.results[i].source # "semantic"
     /\ search.pc = "done" =>
          search.out = SelectSeq(FuseResults(search.results, search.limit),
                                 LAMBDA r : r.score >= search.min_score)

\* C15: with or without a relationship_types filter, the node sets that
\* get_neighbors reports at two different depth levels are disjoint, and no
\* level holds the origin entity.
NeighborLevelsAreDisjoint ==
  seen.op = "neighbors" =>
     \A k \in DOMAIN seen.levels :
        /\ seen.entity_id \notin seen.levels[k]
        /\ \A l \in DOMAIN seen.levels : k # l => seen.levels[k] \cap seen.levels[l] = {}

\* get_neighbors reported two levels from an origin with a self-loop, in a
\* graph where an edge leads from the second level back to the first
NeighborsAcrossCycle ==
  /\ seen.op = "neighbors"
  /\ DOMAIN seen.levels = {1, 2}
  /\ \E e \in graph.edges : e.u = seen.entity_id /\ e.v = seen.entity_id
  /\ \E e \in graph.edges : e.u \in seen.levels[2] /\ e.v \in seen.levels[1]

\* the nodes that a walk of exactly k steps from source reaches when edges
\* may be followed in either direction
RECURSIVE WithinSteps(_, _, _)
WithinSteps(g, source, k) ==
  IF k = 0 THEN {source}
  ELSE LET before == WithinSteps(g, source, k - 1)
       IN before \cup {n \in NodesOf(g) : \E m \in before : \E e \in g.edges :
                         (e.u = m /\ e.v = n) \/ (e.u = n /\ e.v = m)}

\* the undirected shortest-path distance from source to n, for n within
\* Cardinality(NodesOf(g)) steps
UndirectedDistance(g, source, n) ==
  CHOOSE k \in 0..Cardinality(NodesOf(g)) :
    /\ n \in WithinSteps(g, source, k)
    /\ \A j \in 0..(k - 1) : n \notin WithinSteps(g, source, j)

\* C16: find_related_entities returns exactly the nodes other than entity_id
\* at undirected distance 1..max_distance (of the filter's entity_type when
\* one is given), each once with that distance, ordered by distance ascending
\* and, at equal distance, by confidence descending.
RelatedAreWithinDistance ==
  (seen.op = "related" /\ seen.entity_id \in NodesOf(graph)) =>
     LET related == seen.related
         wanted == {n \in WithinSteps(graph, seen.entity_id, seen.max_distance)
                           \ {seen.entity_id} :
                      seen.entity_type = NoFilter
                        \/ graph.nodes[n].entity_type = seen.entity_type}
     IN /\ {related[i].id : i \in 1..Len(related)} = wanted
        /\ Len(related) = Cardinality(wanted)
        /\ \A i \in 1..Len(related) :
              related[i].distance = UndirectedDistance(graph, seen.entity_id, related[i].id)
        /\ \A i, j \in 1..Len(related) :
              i < j => \/ related[i].distance < related[j].distance
                       \/ /\ related[i].distance = related[j].distance
                          /\ related[i].confidence >= related[j].confidence

\* find_related_entities returned a node at distance 2 and a node that only
\* an edge towards entity_id joins to it
RelatedAgainstDirection ==
  /\ seen.op = "related"
  /\ \E i \in 1..Len(seen.related) : seen.related[i].distance = 2
  /\ \E i \in 1..Len(seen.related) :
        /\ \E e \in graph.edges : e.u = seen.related[i].id /\ e.v = seen.entity_id
        /\ \A e \in graph.edges : ~(e.u = seen.entity_id /\ e.v = seen.related[i].id)

\* C20: for an id that is not a node of the graph the queries return their
\* empty result and do not raise: find_paths [] (either endpoint absent),
\* find_shortest_path None, get_neighbors {}, get_entity_context {},
\* find_related_entities [], and search_by_entity an error payload without
\* having used the store.
AbsentNodeGivesEmptyResult ==
  /\ (seen.op = "paths"
        /\ (seen.source_id \notin NodesOf(graph) \/ seen.target_id \notin NodesOf(graph)))
     => seen.paths = {}
  /\ (seen.op = "shortest_path"
        /\ (seen.source_id \notin NodesOf(graph) \/ seen.target_id \notin NodesOf(graph)))
     => seen.path = NoPath
  /\ (seen.op = "neighbors" /\ seen.entity_id \notin NodesOf(graph))
     => seen.levels = << >>
  /\ (seen.op = "context" /\ seen.entity_id \notin NodesOf(graph))
     => seen.result = EmptyContext
  /\ (seen.op = "related" /\ seen.entity_id \notin NodesOf(graph))
     => seen.related = << >>
  /\ (seen.op = "search_by_entity" /\ seen.entity_id \notin NodesOf(graph))
     => (seen.result.error /\ ~ seen.result.queried)

\* search_by_entity was asked about an id that is no node of a graph that
\* has edges
SearchByAbsentEntity ==
  /\ seen.op = "search_by_entity"
  /\ seen.entity_id \notin NodesOf(graph)
  /\ graph.edges # {}

\* C24: for every graph the diagram visualize_mermaid(entity_ids, max_nodes)
\* returns declares at most max_nodes nodes, when entity_ids is omitted and
\* when it lists more than max_nodes ids, and every edge it renders joins two
\* nodes it declares.
MermaidDeclaresAtMostMaxNodes ==
  seen.op = "mermaid" =>
     /\ Cardinality(seen.diagram.nodes) <= seen.max_nodes
     /\ \A e \in seen.diagram.edges :
           /\ \E n \in seen.diagram.nodes : n.id = e.source
           /\ \E n \in seen.diagram.nodes : n.id = e.target

(***************************************************************************)
(* Claims about the path queries.                                          *)
(***************************************************************************)
\* the simple directed paths of g from source to target with 1 to max_depth
\* edges, as sequences of nodes
SimplePaths(g, source, target, max_depth) ==
  {p \in UNION {[1..n -> NodesOf(g)] :
                  n \in 2..Min(max_depth + 1, Cardinality(NodesOf(g)))} :
     /\ p[1] = source
     /\ p[Len(p)] = target
     /\ \A i, j \in 1..Len(p) : i # j => p[i] # p[j]
     /\ \A i \in 1..(Len(p) - 1) : \E e \in g.edges : e.u = p[i] /\ e.v = p[i + 1]}

\* C13: for two distinct endpoints, find_paths without cutoff returns exactly
\* the simple directed paths from source to target of at most max_depth
\* edges, each once, and the empty list when an endpoint is not a node (for
\* A->B->C, A->D->C and max_depth = 3: [A,B,C] and [A,D,C]).
FindPathsReturnsEachSimplePathOnce ==
  (seen.op = "paths" /\ seen.source_id # seen.target_id) =>
     IF seen.source_id \in NodesOf(graph) /\ seen.target_id \in NodesOf(graph)
     THEN /\ {p.nodes : p \in seen.paths}
               = SimplePaths(graph, seen.source_id, seen.target_id, seen.max_depth)
          /\ \A p, q \in seen.paths : p.nodes = q.nodes => p = q
     ELSE seen.paths = {}

\* C25: for every cutoff >= 0 given to find_paths the result holds at most
\* cutoff paths and is the first cutoff paths, in discovery order, of the
\* result without cutoff; cutoff = 0 yields the empty list.
CutoffKeepsFirstPaths ==
  (seen.op = "paths_cutoff" /\ seen.cutoff # NoCutoff) =>
     /\ Len(seen.paths) <= seen.cutoff
     /\ seen.paths = Prefix(seen.all, seen.cutoff)
     /\ seen.cutoff = 0 => seen.paths = << >>

\* the nodes a directed walk from the nodes of reached can get to
RECURSIVE ReachableFrom(_, _)
ReachableFrom(g, reached) ==
  LET more == reached \cup {e.v : e \in {x \in g.edges : x.u \in reached}}
  IN IF more = reached THEN reached ELSE ReachableFrom(g, more)

\* C14: a path returned by find_shortest_path is a directed path from source
\* to target no longer than any path find_paths returns for the pair at any
\* max_depth, and None is returned exactly when an endpoint is not a node or
\* target cannot be reached from source.
ShortestPathIsShortest ==
  seen.op = "shortest_path" =>
     LET p == seen.path
         present == seen.source_id \in NodesOf(graph) /\ seen.target_id \in NodesOf(graph)
     IN /\ p # NoPath =>
             /\ p[1] = seen.source_id
             /\ p[Len(p)] = seen.target_id
             /\ \A i \in 1..(Len(p) - 1) :
                   \E e \in graph.edges : e.u = p[i] /\ e.v = p[i + 1]
             /\ \A d \in PathDepths :
                   \A paths \in FindPaths(graph, seen.source_id, seen.target_id, d) :
                      \A q \in paths : Len(p) <= Len(q.nodes)
        /\ p = NoPath <=>
             (~present \/ seen.target_id \notin ReachableFrom(graph, {seen.source_id}))

\* find_shortest_path returned a path of one edge for a pair that find_paths
\* also joins by a path of three edges
ShortestAmongLonger ==
  /\ seen.op = "shortest_path"
  /\ Len(seen.path) = 2
  /\ \E paths \in FindPaths(graph, seen.source_id, seen.target_id, 3) :
        \E q \in paths : Len(q.nodes) = 4

(***************************************************************************)
(* Claims about the graph strategy.                                        *)
(***************************************************************************)
\* the related entities the graph strategy took for the seed named name
OfSeed(results, name) == SelectSeq(results, LAMBDA r : r.metadata = name)

\* C28: the graph strategy uses at most 5 seed entities, all of them matches
\* of the query that are nodes of the graph, takes at most limit candidates
\* per seed (at most 5 * limit in all) and scores each 1 / (1 + 0.3 *
\* distance), distance being the undirected distance 1 or 2 from the seed: a
\* candidate at distance 1 scores strictly higher than one at distance 2 of
\* the same seed, and a seed is never a candidate of its own expansion.
GraphStrategySeedsAndScores ==
  (search.pc \in {"rank", "done"} /\ search.ran = <<"graph">>) =>
     LET results == search.results
         seeds == {results[i].metadata : i \in 1..Len(results)}
     IN /\ Cardinality(seeds) <= 5
        /\ \A seed \in seeds :
              /\ seed \in NodesOf(graph)
              /\ \E row \in EntitiesLike(store, search.query) : row.id = seed
              /\ Len(OfSeed(results, seed)) <= search.limit
        /\ Len(results) <= 5 * search.limit
        /\ \A i \in 1..Len(results) :
              /\ results[i].source = "graph"
              /\ results[i].item_id # results[i].metadata
              /\ UndirectedDistance(graph, results[i].metadata, results[i].item_id) \in {1, 2}
              /\ results[i].score
                   = 10 * (Scale \div (10 + 3 * UndirectedDistance(graph, results[i].metadata,
                                                                    results[i].item_id)))
        /\ \A i, j \in 1..Len(results) :
              (/\ results[i].metadata = results[j].metadata
               /\ UndirectedDistance(graph, results[i].metadata, results[i].item_id) = 1
               /\ UndirectedDistance(graph, results[j].metadata, results[j].item_id) = 2)
              => results[i].score > results[j].score

\* six entities matched the query and the graph strategy expanded five of
\* them, each to limit candidates, one of them at distance 2
GraphStrategyAtSeedLimit ==
  /\ search.pc = "rank"
  /\ search.ran = <<"graph">>
  /\ Cardinality(EntitiesLike(store, search.query)) = 6
  /\ Cardinality({search.results[i].metadata : i \in 1..Len(search.results)}) = 5
  /\ Len(search.results) = 5 * MaxLimit
  /\ \E i \in 1..Len(search.results) :
        UndirectedDistance(graph, search.results[i].metadata, search.results[i].item_id) = 2

(***************************************************************************)
(* Claims about EntityExtractor.                                           *)
(***************************************************************************)
\* C29: extract_entity_mentions terminates for every text and every
\* entity_name, the empty entity_name and the empty text included.
ExtractMentionsTerminates ==
  (extractor.pc = "find") ~> (extractor.pc = "returned")

\* the inputs that have the entity's key
SameKey(entities, entity) ==
  {i \in 1..Len(entities) : EntityKey(entities[i]) = EntityKey(entity)}

\* C30: deduplicate_entities returns exactly one entity per distinct
\* (name.lower(), entity_type) key of its input; it is the input of that key
\* with the highest confidence, the earliest one on a tie; and applying
\* deduplicate_entities to its own output returns the same list.
DeduplicateKeepsBestPerKey ==
  extractor.pc = "deduplicated" =>
     LET entities == extractor.entities
         out == extractor.out
     IN /\ {EntityKey(out[i]) : i \in 1..Len(out)}
             = {EntityKey(entities[i]) : i \in 1..Len(entities)}
        /\ \A i, j \in 1..Len(out) : i # j => EntityKey(out[i]) # EntityKey(out[j])
        /\ \A i \in 1..Len(out) :
              \E j \in SameKey(entities, out[i]) :
                 /\ out[i] = entities[j]
                 /\ \A k \in SameKey(entities, out[i]) :
                       \/ entities[k].confidence < entities[j].confidence
                       \/ (entities[k].confidence = entities[j].confidence /\ j <= k)
        /\ DeduplicateEntities(out) = out

\* three inputs of one key, the first two with the highest confidence and
\* names that differ in case, were reduced to the first
DeduplicatedTie ==
  /\ extractor.pc = "deduplicated"
  /\ Len(extractor.entities) = 3
  /\ Len(extractor.out) = 1
  /\ extractor.entities[1].name # extractor.entities[2].name
  /\ extractor.entities[1].confidence = extractor.entities[2].confidence
  /\ extractor.entities[3].confidence < extractor.entities[1].confidence
  /\ extractor.out[1] = extractor.entities[1]

====
